---- MODULE Spec2Model ----
(***************************************************************************)
(* Model of the colour converter of src/app/page.tsx: the numeric          *)
(* primitives, the two colour-space transforms, parseColor, convertColor   *)
(* and the page state driven by handleColorChange.                         *)
(*                                                                         *)
(* Numbers.  A JavaScript number is an IEEE-754 binary64 value.  The model *)
(* keeps the IEEE value classes (NaN, +Infinity, -Infinity, finite), the   *)
(* overflow threshold of binary64 and round-to-nearest-even after every    *)
(* arithmetic operation, but carries six significant decimal digits        *)
(* instead of 53 bits: a finite number is m * 10^e with |m| < 10^6.        *)
(* Strings are sequences of one-character strings.                         *)
(***************************************************************************)
EXTENDS Integers, Sequences, FiniteSets, TLC

VARIABLES input, conversions, previewColor, call, ret

vars == <<input, conversions, previewColor, call, ret>>

---------------------------------------------------------------------------
(* The operators that model the functions of the program, and the         *)
(* arithmetic under them, are applied through Call: F(x) is                *)
(* Call(<<"F", x>>), and Call, defined after the last of them, applies    *)
(* F_body, the definition of F.  The call graph is then a cycle through   *)
(* the one recursive operator Call, which keeps TLC's coverage            *)
(* statistics at one record per definition instead of one per call path. *)

RECURSIVE Call(_)

RoundInt(n, e) == Call(<<"RoundInt", n, e>>)

Add(x, y) == Call(<<"Add", x, y>>)

Mul(x, y) == Call(<<"Mul", x, y>>)

Div(x, y) == Call(<<"Div", x, y>>)

MathRound(x) == Call(<<"MathRound", x>>)

SumStep(st) == Call(<<"SumStep", st>>)

TaylorStep(st) == Call(<<"TaylorStep", st>>)

ReducePI(x) == Call(<<"ReducePI", x>>)

MathCos(x) == Call(<<"MathCos", x>>)

MathSin(x) == Call(<<"MathSin", x>>)

AtanStep(st) == Call(<<"AtanStep", st>>)

Atan01(z) == Call(<<"Atan01", z>>)

MathAtan2(y, x) == Call(<<"MathAtan2", y, x>>)

linearTosRGB(c0) == Call(<<"linearTosRGB", c0>>)

sRGBtoLinear(c0) == Call(<<"sRGBtoLinear", c0>>)

oklchToRgb(l, c, h0) == Call(<<"oklchToRgb", l, c, h0>>)

rgbToOklch(r, g, b) == Call(<<"rgbToOklch", r, g, b>>)

UnsignedDecimal(s) == Call(<<"UnsignedDecimal", s>>)

Number(s0) == Call(<<"Number", s0>>)

parseInt16(s0) == Call(<<"parseInt16", s0>>)

NumberToString(x) == Call(<<"NumberToString", x>>)

toString16(x) == Call(<<"toString16", x>>)

toFixed(x, d) == Call(<<"toFixed", x, d>>)

parseOklch(cleaned) == Call(<<"parseOklch", cleaned>>)

parseRgb(cleaned) == Call(<<"parseRgb", cleaned>>)

parseHex(cleaned) == Call(<<"parseHex", cleaned>>)

parseColor(in) == Call(<<"parseColor", in>>)

hexByte(x) == Call(<<"hexByte", x>>)

rgbText(r, g, b) == Call(<<"rgbText", r, g, b>>)

hexText(r, g, b) == Call(<<"hexText", r, g, b>>)

oklchText(lch) == Call(<<"oklchText", lch>>)

convertColor(format, values) == Call(<<"convertColor", format, values>>)

displayColor(format, values) == Call(<<"displayColor", format, values>>)

---------------------------------------------------------------------------
(* Integer helpers *)

\* The element of a one-element set.  {F(v) : v \in {e}} is F at the value
\* of e: the statements of a function body, each using the values of the
\* ones before it, are written this way.
Only(S) == CHOOSE v \in S : TRUE

Abs(n) == IF n < 0 THEN -n ELSE n

Sgn(n) == IF n < 0 THEN -1 ELSE IF n > 0 THEN 1 ELSE 0

Pow10(k) ==
  CASE k = 0 -> 1 [] k = 1 -> 10 [] k = 2 -> 100 [] k = 3 -> 1000
    [] k = 4 -> 10000 [] k = 5 -> 100000 [] k = 6 -> 1000000
    [] k = 7 -> 10000000 [] k = 8 -> 100000000 [] k = 9 -> 1000000000

\* Number of decimal digits of a > 0.
NumDigits(a) ==
  IF a < 100000
  THEN (IF a < 100 THEN (IF a < 10 THEN 1 ELSE 2)
        ELSE IF a < 1000 THEN 3 ELSE IF a < 10000 THEN 4 ELSE 5)
  ELSE IF a < 10000000 THEN (IF a < 1000000 THEN 6 ELSE 7)
  ELSE IF a < 100000000 THEN 8 ELSE IF a < 1000000000 THEN 9 ELSE 10

---------------------------------------------------------------------------
(* Number values *)

NaN == [k |-> "nan", m |-> 0, e |-> 0]

Infinity == [k |-> "inf", m |-> 1, e |-> 0]

NegInfinity == [k |-> "inf", m |-> -1, e |-> 0]

Zero == [k |-> "fin", m |-> 0, e |-> 0]

Inf(s) == IF s < 0 THEN NegInfinity ELSE Infinity

isNaN(x) == x.k = "nan"

IsFin(x) == x.k = "fin"

\* The number of trailing zero digits of a > 0 (at most 9).
RECURSIVE TrailingZeros(_)
TrailingZeros(a) == IF a % 10 # 0 THEN 0 ELSE 1 + TrailingZeros(a \div 10)

\* The finite number s * m * 10^e for a significand m without trailing
\* zero, with binary64's overflow to an infinity above 1.79769e308 and
\* underflow to zero below 1e-324.
CanonRange(s, m, e) ==
  LET ae == e + NumDigits(m) - 1
  IN  IF ae > 308 \/ (ae = 308 /\ m * Pow10(6 - NumDigits(m)) > 179769)
      THEN Inf(s)
      ELSE IF ae < -324 THEN Zero
      ELSE [k |-> "fin", m |-> s * m, e |-> e]

\* The finite number s * a * 10^e for 0 < a <= 10^6, in canonical form (no
\* trailing zero in the significand).
Canon(s, a, e) ==
  CanonRange(s, a \div Pow10(TrailingZeros(a)), e + TrailingZeros(a))

\* s * (q + r / (2 * half)) * 10^e rounded to an integer significand, a tie
\* going to the even one.
RoundCut(s, q, r, half, e) ==
  Canon(s, IF r > half \/ (r = half /\ q % 2 = 1) THEN q + 1 ELSE q, e)

\* s * a * 10^e for a > 0 of nd digits, rounded to six significant digits.
RoundAbs(s, a, nd, e) ==
  IF nd <= 6 THEN Canon(s, a, e)
  ELSE RoundCut(s, a \div Pow10(nd - 6), a % Pow10(nd - 6),
                5 * Pow10(nd - 7), e + nd - 6)

\* n * 10^e rounded to six significant digits, ties to even.
RoundInt_body(n, e) ==
  IF n = 0 THEN Zero ELSE RoundAbs(Sgn(n), Abs(n), NumDigits(Abs(n)), e)

\* An integer, and a decimal literal m * 10^e, as numbers.
Num(n) == RoundInt(n, 0)

Dec(m, e) == RoundInt(m, e)

\* The significand of a finite non-zero x widened to six digits, and the
\* exponent that goes with it.
Wide(x) == x.m * Pow10(6 - NumDigits(Abs(x.m)))

WideExp(x) == x.e - (6 - NumDigits(Abs(x.m)))

Neg(x) == [x EXCEPT !.m = -x.m]

\* x + y for finite non-zero x, y whose widened exponents differ by d >= 0,
\* x the one with the larger exponent.
AddOrdered(x, y, d) ==
  IF d >= 9 THEN x
  ELSE IF d <= 2 THEN RoundInt(Wide(x) * Pow10(d) + Wide(y), WideExp(y))
  ELSE LET ay == Abs(Wide(y))
           p  == Pow10(d - 2)
           yq == ay \div p
           st == IF ay % p # 0 THEN 1 ELSE 0
           sy == Sgn(y.m)
       IN  RoundInt((Wide(x) * 100 + sy * yq) * 10 + sy * st, WideExp(x) - 3)

Add_body(x, y) ==
  IF isNaN(x) \/ isNaN(y) THEN NaN
  ELSE IF x.k = "inf"
       THEN (IF y.k = "inf" /\ y.m # x.m THEN NaN ELSE x)
  ELSE IF y.k = "inf" THEN y
  ELSE IF x.m = 0 THEN y
  ELSE IF y.m = 0 THEN x
  ELSE IF WideExp(x) >= WideExp(y)
       THEN AddOrdered(x, y, WideExp(x) - WideExp(y))
       ELSE AddOrdered(y, x, WideExp(y) - WideExp(x))

Sub(x, y) == Add(x, Neg(y))

\* s * (hi * 10^6 + lo) * 10^e for a product of up to twelve digits: the
\* digits below the eighth are kept as one sticky digit.
MulRound(hi, lo, s, e) ==
  RoundInt(s * ((hi * 100 + (lo \div 10000)) * 10
                  + (IF lo % 10000 # 0 THEN 1 ELSE 0)), e)

\* The partial products of two six-digit significands split in threes.
MulSum(hh, cross, ll, s, e) ==
  MulRound(hh + (cross \div 1000) + (((cross % 1000) * 1000 + ll) \div 1000000),
           ((cross % 1000) * 1000 + ll) % 1000000, s, e)

MulWide(a, b, s, e) ==
  MulSum((a \div 1000) * (b \div 1000),
         (a \div 1000) * (b % 1000) + (a % 1000) * (b \div 1000),
         (a % 1000) * (b % 1000), s, e)

Mul_body(x, y) ==
  IF isNaN(x) \/ isNaN(y) THEN NaN
  ELSE IF x.k = "inf" \/ y.k = "inf"
       THEN (IF x.m = 0 \/ y.m = 0 THEN NaN ELSE Inf(Sgn(x.m) * Sgn(y.m)))
  ELSE IF x.m = 0 \/ y.m = 0 THEN Zero
  ELSE IF NumDigits(Abs(x.m)) + NumDigits(Abs(y.m)) <= 9
       THEN RoundInt(x.m * y.m, x.e + y.e)
  ELSE MulWide(Abs(Wide(x)), Abs(Wide(y)), Sgn(x.m) * Sgn(y.m),
               WideExp(x) + WideExp(y) + 3)

\* Long division of six-digit significands, three quotient digits at a
\* step; the digits below the eighth are kept as one sticky digit.
DivRound(q12, q3, r3, s, e) ==
  RoundInt(s * ((q12 * 10 + (q3 \div 100)) * 10
                  + (IF q3 % 100 # 0 \/ r3 # 0 THEN 1 ELSE 0)), e)

DivThird(q12, r2, b, s, e) ==
  DivRound(q12, (r2 * 1000) \div b, (r2 * 1000) % b, s, e)

DivSecond(q1, r1, b, s, e) ==
  DivThird(q1 * 1000 + ((r1 * 1000) \div b), (r1 * 1000) % b, b, s, e)

DivWide(a, b, s, e) == DivSecond((a * 1000) \div b, (a * 1000) % b, b, s, e)

Div_body(x, y) ==
  IF isNaN(x) \/ isNaN(y) THEN NaN
  ELSE IF x.k = "inf"
       THEN (IF y.k = "inf" THEN NaN
             ELSE Inf(x.m * (IF y.m < 0 THEN -1 ELSE 1)))
  ELSE IF y.k = "inf" THEN Zero
  ELSE IF y.m = 0 THEN (IF x.m = 0 THEN NaN ELSE Inf(Sgn(x.m)))
  ELSE IF x.m = 0 THEN Zero
  ELSE DivWide(Abs(Wide(x)), Abs(Wide(y)), Sgn(x.m) * Sgn(y.m),
               WideExp(x) - WideExp(y) - 8)

\* -1, 0 or 1 as x < y, x = y or x > y, for x and y that are not NaN.
Cmp(x, y) ==
  IF x = y THEN 0
  ELSE IF x.k = "inf" THEN x.m
  ELSE IF y.k = "inf" THEN -y.m
  ELSE Sgn(Sub(x, y).m)

\* The comparisons of the language: false when either side is NaN.
Lt(x, y) == ~isNaN(x) /\ ~isNaN(y) /\ Cmp(x, y) < 0

Le(x, y) == ~isNaN(x) /\ ~isNaN(y) /\ Cmp(x, y) <= 0

---------------------------------------------------------------------------
(* The Math functions the source uses.  The language leaves their accuracy *)
(* to the implementation; here each is computed from the rounded           *)
(* arithmetic above and lands within a few units in the last place.        *)

\* Math.max(x, y) and Math.min(x, y): NaN when either argument is NaN.
MathMax(x, y) ==
  IF isNaN(x) \/ isNaN(y) THEN NaN ELSE IF Cmp(x, y) >= 0 THEN x ELSE y

MathMin(x, y) ==
  IF isNaN(x) \/ isNaN(y) THEN NaN ELSE IF Cmp(x, y) <= 0 THEN x ELSE y

\* Math.round(x): the integer nearest x, a tie going up.
MathRound_body(x) ==
  IF ~IsFin(x) \/ x.e >= 0 THEN x
  ELSE IF x.e < -9 THEN Zero
  ELSE LET p == Pow10(-x.e) IN Num((2 * x.m + p) \div (2 * p))

\* y^n for the exponents in use, 2, 3, 5 and 12, by squaring.
PowN(y, n) ==
  CASE n = 2 -> Mul(y, y)
    [] n = 3 -> Only({Mul(y, y2) : y2 \in {Mul(y, y)}})
    [] n = 5 -> Only({Mul(y, y4) : y4 \in {Mul(y2, y2) : y2 \in {Mul(y, y)}}})
    [] n = 12 ->
         Only({Mul(y6, y6) :
           y6 \in {Mul(y3, y3) :
             y3 \in {Mul(y, y2) : y2 \in {Mul(y, y)}}}})

\* The largest k among lo, lo + step, ..., lo + 9 * step with
\* (k * 10^-5)^q <= x, given that lo is one: the power being monotone, the
\* digit is the number of d in 1..9 for which lo + d * step is one.
RootDigit(lo, step, x, q) ==
  lo + step * Cardinality({d \in 1..9 :
                Cmp(PowN(Dec(lo + d * step, -5), q), x) <= 0})

\* The largest k in 100000..999999 with (k * 10^-5)^q <= x, for x in
\* [1, 10^q), digit by digit.
RootSearch(x, q) ==
  Only({RootDigit(k5, 1, x, q) :
    k5 \in {RootDigit(k4, 10, x, q) :
      k4 \in {RootDigit(k3, 100, x, q) :
        k3 \in {RootDigit(k2, 1000, x, q) :
          k2 \in {RootDigit(k1, 10000, x, q) :
            k1 \in {RootDigit(100000, 100000, x, q)}}}}}})

\* Of k * 10^-5 and (k + 1) * 10^-5, k the result of the search, the one
\* whose q-th power is nearer xs, scaled by 10^t.
RootNear(xs, q, t) ==
  Only({Dec(IF Cmp(Sub(PowN(Dec(k + 1, -5), q), xs),
                   Sub(xs, PowN(Dec(k, -5), q))) < 0 THEN k + 1 ELSE k,
            t - 5) :
          k \in {RootSearch(xs, q)}})

\* The decimal exponent of x divided by q, rounded down.
RootScale(x, q) == (x.e + NumDigits(x.m) - 1) \div q

\* The q-th root of a finite x > 0: x is scaled by a power of 10^q into
\* [1, 10^q), whose root lies in [1, 10).
Root(x, q) ==
  RootNear([x EXCEPT !.e = x.e - q * RootScale(x, q)], q, RootScale(x, q))

\* Math.pow(x, p / q) for x >= 0 and the two exponents of the source,
\* 2.4 = 12/5 and 1 / 2.4 = 5/12.
MathPow(x, p, q) ==
  IF isNaN(x) THEN NaN
  ELSE IF x.k = "inf" THEN (IF x.m > 0 THEN Infinity ELSE NaN)
  ELSE IF x.m < 0 THEN NaN
  ELSE IF x.m = 0 THEN Zero
  ELSE LET xp == PowN(x, p)
       IN  IF xp.k = "inf" \/ xp.m = 0 THEN xp ELSE Root(xp, q)

\* Math.cbrt(x), defined for negative x too.
MathCbrt(x) ==
  IF ~IsFin(x) \/ x.m = 0 THEN x
  ELSE IF x.m < 0 THEN Neg(Root(Neg(x), 3))
  ELSE Root(x, 3)

\* Math.sqrt(x).
MathSqrt(x) ==
  IF isNaN(x) THEN NaN
  ELSE IF x.k = "inf" THEN (IF x.m > 0 THEN Infinity ELSE NaN)
  ELSE IF x.m < 0 THEN NaN
  ELSE IF x.m = 0 THEN Zero
  ELSE Root(x, 2)

\* Math.PI, and its half and double.
MathPI == Dec(314159265, -8)

HalfPI == Dec(157079633, -8)

TwoPI == Dec(628318531, -8)

\* The function named f applied three times, and twelve times, to st.
Thrice(f, st) ==
  Only({Call(<<f, c>>) : c \in {Call(<<f, b>>) : b \in {Call(<<f, st>>)}}})

Twelve(f, st) ==
  Only({Thrice(f, d) :
    d \in {Thrice(f, c) : c \in {Thrice(f, b) : b \in {Thrice(f, st)}}}})

\* One step of a sum from its last term back: the last of the terms left is
\* added to acc, the sum of the terms after it.
SumStep_body(st) ==
  IF st.terms = <<>> THEN st
  ELSE [terms |-> SubSeq(st.terms, 1, Len(st.terms) - 1),
        acc |-> Add(st.terms[Len(st.terms)], st.acc)]

\* The sum of at most twelve terms, added from the last one back.
SumBack(terms) == Twelve("SumStep", [terms |-> terms, acc |-> Zero]).acc

\* One step of a Taylor series: term, the term at n, joins the terms, and
\* the next term is -term * t2 / ((n + 1)(n + 2)), t2 the square of the
\* argument; the series ends after left terms or at a term of zero.
TaylorStep_body(st) ==
  IF st.left = 0 \/ st.term.m = 0 THEN st
  ELSE [st EXCEPT !.terms = Append(@, st.term),
                  !.term = Neg(Div(Mul(@, st.t2),
                                   Num((st.n + 1) * (st.n + 2)))),
                  !.n = @ + 2, !.left = @ - 1]

\* The sum of at most left <= 12 terms of a Taylor series from term on.
TaylorSum(term, t2, n, left) ==
  SumBack(Twelve("TaylorStep", [terms |-> <<>>, term |-> term, t2 |-> t2,
                                n |-> n, left |-> left]).terms)

\* x reduced to [-PI, PI] by a multiple of 2 PI, for finite x.
ReducePI_body(x) ==
  IF Cmp(x, MathPI) <= 0 /\ Cmp(x, Neg(MathPI)) >= 0 THEN x
  ELSE Sub(x, Mul(MathRound(Div(x, TwoPI)), TwoPI))

\* Math.cos(x) and Math.sin(x).
MathCos_body(x) ==
  IF ~IsFin(x) THEN NaN
  ELSE LET r == ReducePI(x)
           a == IF r.m < 0 THEN Neg(r) ELSE r
       IN  IF Cmp(a, HalfPI) > 0
           THEN LET t == Sub(MathPI, a)
                IN  Neg(TaylorSum(Num(1), Mul(t, t), 0, 9))
           ELSE TaylorSum(Num(1), Mul(a, a), 0, 9)

MathSin_body(x) ==
  IF ~IsFin(x) THEN NaN
  ELSE LET r == ReducePI(x)
           a == IF r.m < 0 THEN Neg(r) ELSE r
           t == IF Cmp(a, HalfPI) > 0 THEN Sub(MathPI, a) ELSE a
           s == TaylorSum(t, Mul(t, t), 1, 9)
       IN  IF r.m < 0 THEN Neg(s) ELSE s

\* One step of the arctangent series z - z^3/3 + z^5/5 - ...: pw / n joins
\* the terms, pw = z^n with its sign, and the next power is -pw * z2.
AtanStep_body(st) ==
  IF st.left = 0 \/ st.pw.m = 0 THEN st
  ELSE [st EXCEPT !.terms = Append(@, Div(st.pw, Num(st.n))),
                  !.pw = Neg(Mul(@, st.z2)),
                  !.n = @ + 2, !.left = @ - 1]

\* The sum of at most left <= 12 terms of the series from pw / n on.
AtanSum(pw, z2, n, left) ==
  SumBack(Twelve("AtanStep", [terms |-> <<>>, pw |-> pw, z2 |-> z2,
                              n |-> n, left |-> left]).terms)

\* atan(z) for 0 <= z <= 1: above tan(PI/8) by atan(z) = PI/4 - atan((1-z)/(1+z)).
Atan01_body(z) ==
  IF Cmp(z, Dec(414214, -6)) > 0
  THEN LET w == Div(Sub(Num(1), z), Add(Num(1), z))
       IN  Sub(Div(MathPI, Num(4)), AtanSum(w, Mul(w, w), 1, 12))
  ELSE AtanSum(z, Mul(z, z), 1, 12)

\* Math.atan2(y, x), in [-PI, PI].
MathAtan2_body(y, x) ==
  IF isNaN(x) \/ isNaN(y) THEN NaN
  ELSE IF x.k = "inf" \/ y.k = "inf"
       THEN LET a == IF y.k # "inf" THEN (IF x.m > 0 THEN Zero ELSE MathPI)
                     ELSE IF x.k # "inf" THEN HalfPI
                     ELSE IF x.m > 0 THEN Div(MathPI, Num(4))
                     ELSE Div(Mul(Num(3), MathPI), Num(4))
            IN  IF y.m < 0 THEN Neg(a) ELSE a
  ELSE IF y.m = 0 THEN (IF x.m < 0 THEN MathPI ELSE Zero)
  ELSE IF x.m = 0 THEN (IF y.m < 0 THEN Neg(HalfPI) ELSE HalfPI)
  ELSE LET ay == IF y.m < 0 THEN Neg(y) ELSE y
           ax == IF x.m < 0 THEN Neg(x) ELSE x
           a1 == IF Cmp(ay, ax) <= 0 THEN Atan01(Div(ay, ax))
                 ELSE Sub(HalfPI, Atan01(Div(ax, ay)))
           a2 == IF x.m < 0 THEN Sub(MathPI, a1) ELSE a1
       IN  IF y.m < 0 THEN Neg(a2) ELSE a2

---------------------------------------------------------------------------
(* Helper functions and core conversion functions of the source.  Decimal  *)
(* literals longer than nine digits are written with their first nine      *)
(* significant digits; Dec rounds them to the precision of the model.      *)

\* Clamps a number between min and max.
clamp(value, min, max) == MathMax(min, MathMin(value, max))

\* Linear sRGB component to sRGB component (gamma correction).
linearTosRGB_body(c0) ==
  LET c == clamp(c0, Zero, Num(1))
  IN  IF Le(c, Dec(31308, -7))
      THEN Mul(Dec(1292, -2), c)
      ELSE Sub(Mul(Dec(1055, -3), MathPow(c, 5, 12)), Dec(55, -3))

\* sRGB component to linear sRGB component (gamma decompression).
sRGBtoLinear_body(c0) ==
  LET c == clamp(c0, Zero, Num(1))
  IN  IF Le(c, Dec(4045, -5))
      THEN Div(c, Dec(1292, -2))
      ELSE MathPow(Div(Add(c, Dec(55, -3)), Dec(1055, -3)), 12, 5)

\* oklchToRgb, stage by stage; each stage takes the triple of the stage
\* before it.

\* Convert OKLCH to OKLab.
OklchToOklab(l, c, hRad) == <<l, Mul(c, MathCos(hRad)), Mul(c, MathSin(hRad))>>

\* Convert OKLab to LMS (non-linear cone responses).
OklabToLms_(lab) ==
  LET lab_l == lab[1]
      lab_a == lab[2]
      lab_b == lab[3]
  IN  <<Add(Add(lab_l, Mul(Dec(396337777, -9), lab_a)),
            Mul(Dec(215803757, -9), lab_b)),
        Sub(Sub(lab_l, Mul(Dec(105561346, -9), lab_a)),
            Mul(Dec(638541728, -10), lab_b)),
        Sub(Sub(lab_l, Mul(Dec(894841775, -10), lab_a)),
            Mul(Dec(1291485548, -9), lab_b))>>

\* Cube the non-linear LMS values.
Lms_ToLms(lms_) ==
  [i \in 1..3 |-> Mul(Mul(lms_[i], lms_[i]), lms_[i])]

\* Convert linear LMS to linear sRGB.
LmsToLinear(lms) ==
  LET lms_l == lms[1]
      lms_m == lms[2]
      lms_s == lms[3]
  IN  <<Add(Sub(Mul(Dec(407674685, -8), lms_l),
                Mul(Dec(330771159, -8), lms_m)),
            Mul(Dec(230964736, -9), lms_s)),
        Sub(Add(Mul(Dec(-1268438005, -9), lms_l),
                Mul(Dec(260975740, -8), lms_m)),
            Mul(Dec(341319397, -9), lms_s)),
        Add(Sub(Mul(Dec(-419608630, -11), lms_l),
                Mul(Dec(703418615, -9), lms_m)),
            Mul(Dec(1707614701, -9), lms_s))>>

\* Convert linear sRGB to sRGB (0-1), scale to 0-255, round and clamp.
LinearToRgb(linear) ==
  [i \in 1..3 |->
     clamp(MathRound(Mul(linearTosRGB(linear[i]), Num(255))),
           Zero, Num(255))]

\* OKLCH -> OKLab -> LMS -> linear sRGB -> sRGB, a triple of channels.
oklchToRgb_body(l, c, h0) ==
  Only({LinearToRgb(linear) :
    linear \in {LmsToLinear(lms) :
      lms \in {Lms_ToLms(lms_) :
        lms_ \in {OklabToLms_(lab) :
          lab \in {OklchToOklab(l, c, hRad) :
            hRad \in {Mul(IF isNaN(h0) THEN Zero ELSE h0,
                          Div(MathPI, Num(180)))}}}}}})

\* rgbToOklch, stage by stage.

\* Normalize RGB to 0-1 and convert to linear sRGB.
RgbToLinear(r, g, b) ==
  <<sRGBtoLinear(Div(r, Num(255))), sRGBtoLinear(Div(g, Num(255))),
    sRGBtoLinear(Div(b, Num(255)))>>

\* Convert linear sRGB to LMS.
LinearToLms(linear) ==
  LET r_linear == linear[1]
      g_linear == linear[2]
      b_linear == linear[3]
  IN  <<Add(Add(Mul(Dec(412165612, -9), r_linear),
                Mul(Dec(536275208, -9), g_linear)),
            Mul(Dec(514575653, -10), b_linear)),
        Add(Add(Mul(Dec(211856107, -9), r_linear),
                Mul(Dec(680718958, -9), g_linear)),
            Mul(Dec(107406579, -9), b_linear)),
        Add(Add(Mul(Dec(883097947, -10), r_linear),
                Mul(Dec(281847417, -9), g_linear)),
            Mul(Dec(630261362, -9), b_linear))>>

\* Apply the cube root non-linearity.
LmsToLms_(lms) == [i \in 1..3 |-> MathCbrt(lms[i])]

\* Convert non-linear LMS to OKLab.
Lms_ToOklab(lms_) ==
  LET lms_l_ == lms_[1]
      lms_m_ == lms_[2]
      lms_s_ == lms_[3]
  IN  <<Sub(Add(Mul(Dec(210454255, -9), lms_l_),
                Mul(Dec(793617785, -9), lms_m_)),
            Mul(Dec(407204680, -11), lms_s_)),
        Add(Sub(Mul(Dec(197799850, -8), lms_l_),
                Mul(Dec(242859221, -8), lms_m_)),
            Mul(Dec(450593710, -9), lms_s_)),
        Sub(Add(Mul(Dec(259040371, -10), lms_l_),
                Mul(Dec(782771766, -9), lms_m_)),
            Mul(Dec(808675766, -9), lms_s_))>>

\* Ensure hue is in the range [0, 360): h += 360 when h < 0.
HueDegrees(h) == IF Lt(h, Zero) THEN Add(h, Num(360)) ELSE h

\* Convert OKLab to OKLCH; L is clamped to [0, 1].
OklabToOklch(lab) ==
  LET lab_l == lab[1]
      lab_a == lab[2]
      lab_b == lab[3]
  IN  <<clamp(lab_l, Zero, Num(1)),
        MathSqrt(Add(Mul(lab_a, lab_a), Mul(lab_b, lab_b))),
        HueDegrees(Mul(MathAtan2(lab_b, lab_a), Div(Num(180), MathPI)))>>

\* sRGB (0-255) -> linear sRGB -> LMS -> OKLab -> OKLCH, the triple L, C, H.
rgbToOklch_body(r, g, b) ==
  Only({OklabToOklch(lab) :
    lab \in {Lms_ToOklab(lms_) :
      lms_ \in {LmsToLms_(lms) :
        lms \in {LinearToLms(linear) :
          linear \in {RgbToLinear(r, g, b)}}}}})

---------------------------------------------------------------------------
(* Strings: sequences of one-character strings, indexed from 1 here and    *)
(* from 0 in the source.                                                   *)

IsSpace(c) == c \in {" ", "\t"}

UpperChars ==
  <<"A", "B", "C", "D", "E", "F", "G", "H", "I", "J", "K", "L", "M",
    "N", "O", "P", "Q", "R", "S", "T", "U", "V", "W", "X", "Y", "Z">>

LowerChars ==
  <<"a", "b", "c", "d", "e", "f", "g", "h", "i", "j", "k", "l", "m",
    "n", "o", "p", "q", "r", "s", "t", "u", "v", "w", "x", "y", "z">>

LowerOf(c) ==
  IF \E i \in 1..26 : UpperChars[i] = c
  THEN LowerChars[CHOOSE i \in 1..26 : UpperChars[i] = c]
  ELSE c

\* String.prototype.toLowerCase.
toLowerCase(s) == [i \in 1..Len(s) |-> LowerOf(s[i])]

\* String.prototype.trim.
RECURSIVE trimStart(_)
trimStart(s) ==
  IF s # <<>> /\ IsSpace(Head(s)) THEN trimStart(Tail(s)) ELSE s

RECURSIVE trimEnd(_)
trimEnd(s) ==
  IF s # <<>> /\ IsSpace(s[Len(s)]) THEN trimEnd(SubSeq(s, 1, Len(s) - 1))
  ELSE s

trim(s) == trimEnd(trimStart(s))

\* String.prototype.startsWith.
startsWith(s, p) == Len(s) >= Len(p) /\ SubSeq(s, 1, Len(p)) = p

\* String.prototype.substring(start, end): both indices are clamped to
\* 0..length and swapped when start > end.
substring(s, start, end) ==
  LET cl(i) == IF i < 0 THEN 0 ELSE IF i > Len(s) THEN Len(s) ELSE i
      a     == cl(start)
      b     == cl(end)
  IN  IF a <= b THEN SubSeq(s, a + 1, b) ELSE SubSeq(s, b + 1, a)

\* String.prototype.indexOf for one character: 0-based, -1 when absent.
indexOf(s, c) ==
  IF \E i \in 1..Len(s) : s[i] = c
  THEN (CHOOSE i \in 1..Len(s) : s[i] = c /\ \A j \in 1..(i - 1) : s[j] # c) - 1
  ELSE -1

\* String.prototype.split for a one-character separator.
RECURSIVE split(_, _)
split(s, c) ==
  LET i == indexOf(s, c)
  IN  IF i < 0 THEN <<s>>
      ELSE <<SubSeq(s, 1, i)>> \o split(SubSeq(s, i + 2, Len(s)), c)

\* String.prototype.split(/\s+/).
RECURSIVE splitSpaces(_)
splitSpaces(s) ==
  IF \E i \in 1..Len(s) : IsSpace(s[i])
  THEN LET i == CHOOSE i \in 1..Len(s) :
                  IsSpace(s[i]) /\ \A j \in 1..(i - 1) : ~IsSpace(s[j])
       IN  <<SubSeq(s, 1, i - 1)>>
             \o splitSpaces(trimStart(SubSeq(s, i, Len(s))))
  ELSE <<s>>

\* Array.prototype.join.
RECURSIVE join(_, _)
join(parts, sep) ==
  IF parts = <<>> THEN <<>>
  ELSE IF Len(parts) = 1 THEN parts[1]
  ELSE parts[1] \o sep \o join(Tail(parts), sep)

\* String.prototype.padStart(n, c) for a one-character pad.
RECURSIVE padStart(_, _, _)
padStart(s, n, c) == IF Len(s) >= n THEN s ELSE padStart(<<c>> \o s, n, c)

DigitChars == <<"0", "1", "2", "3", "4", "5", "6", "7", "8", "9",
                "a", "b", "c", "d", "e", "f">>

\* The value of a digit character in a radix of at most 16, -1 for any other
\* character; letters count in either case.
DigitVal(c, radix) ==
  LET l == LowerOf(c)
  IN  IF \E i \in 1..radix : DigitChars[i] = l
      THEN (CHOOSE i \in 1..radix : DigitChars[i] = l) - 1
      ELSE -1

AllDigits(s, radix) == \A i \in 1..Len(s) : DigitVal(s[i], radix) >= 0

\* The length of the longest prefix of s made of digits of the radix.
RECURSIVE DigitRun(_, _)
DigitRun(s, radix) ==
  IF s # <<>> /\ DigitVal(Head(s), radix) >= 0
  THEN 1 + DigitRun(Tail(s), radix)
  ELSE 0

\* The integer written by the digits s, for values that fit the model's
\* integers.
RECURSIVE DigitsToInt(_, _, _)
DigitsToInt(s, radix, acc) ==
  IF s = <<>> THEN acc
  ELSE DigitsToInt(Tail(s), radix, acc * radix + DigitVal(Head(s), radix))

\* A run of decimal digits read as a significand of at most eight digits:
\* m the digits kept, x the number of digits dropped, st whether a dropped
\* digit was not zero.
RECURSIVE ReadDigits(_, _)
ReadDigits(s, acc) ==
  IF s = <<>> THEN acc
  ELSE LET d == DigitVal(Head(s), 10)
       IN  ReadDigits(Tail(s),
             IF acc.m < 10000000
             THEN [acc EXCEPT !.m = acc.m * 10 + d]
             ELSE [acc EXCEPT !.x = acc.x + 1,
                              !.st = IF d # 0 THEN 1 ELSE acc.st])

\* An exponent, capped where every larger one overflows or underflows alike.
ReadExponent(s) ==
  IF Len(s) > 4 THEN 9999 ELSE DigitsToInt(s, 10, 0)

\* StrUnsignedDecimalLiteral without "Infinity": digits, an optional point
\* and fraction, an optional exponent part; NaN when s is not one.  The
\* literal is taken apart from the left: int and frac are its integer and
\* fraction digits, ex its exponent.
DecimalRound(acc, nf, ex) ==
  RoundInt(acc.m * 10 + acc.st, acc.x - 1 - nf + ex)

DecimalValue(int, frac, ex) ==
  DecimalRound(ReadDigits(int \o frac, [m |-> 0, x |-> 0, st |-> 0]),
               Len(frac), ex)

DecimalSigned(int, frac, esgn, r5) ==
  IF r5 # <<>> /\ AllDigits(r5, 10)
  THEN DecimalValue(int, frac, esgn * ReadExponent(r5))
  ELSE NaN

DecimalExponent(int, frac, r3) ==
  IF Len(int) + Len(frac) = 0 THEN NaN
  ELSE IF r3 = <<>> THEN DecimalValue(int, frac, 0)
  ELSE IF Head(r3) \notin {"e", "E"} \/ Len(r3) = 1 THEN NaN
  ELSE IF r3[2] \in {"+", "-"}
       THEN DecimalSigned(int, frac, IF r3[2] = "-" THEN -1 ELSE 1,
                          SubSeq(r3, 3, Len(r3)))
  ELSE DecimalSigned(int, frac, 1, Tail(r3))

DecimalFraction(int, r2) ==
  DecimalExponent(int, SubSeq(r2, 1, DigitRun(r2, 10)),
                  SubSeq(r2, DigitRun(r2, 10) + 1, Len(r2)))

DecimalPoint(int, r1) ==
  IF r1 # <<>> /\ Head(r1) = "."
  THEN DecimalFraction(int, Tail(r1))
  ELSE DecimalExponent(int, <<>>, r1)

UnsignedDecimal_body(s) ==
  DecimalPoint(SubSeq(s, 1, DigitRun(s, 10)),
               SubSeq(s, DigitRun(s, 10) + 1, Len(s)))

InfinityStr == <<"I", "n", "f", "i", "n", "i", "t", "y">>

\* Number(s): the StringToNumber conversion.  White space is trimmed, the
\* empty string is 0, a 0x, 0o or 0b literal is an integer, anything that
\* is not a numeric literal is NaN.
Number_body(s0) ==
  LET s    == trim(s0)
      sgn  == IF s # <<>> /\ Head(s) = "-" THEN -1 ELSE 1
      body == IF s # <<>> /\ Head(s) \in {"+", "-"} THEN Tail(s) ELSE s
      pre  == IF Len(s) >= 2 /\ s[1] = "0" THEN LowerOf(s[2]) ELSE ""
      rad  == IF pre = "x" THEN 16 ELSE IF pre = "o" THEN 8
              ELSE IF pre = "b" THEN 2 ELSE 0
      rest == SubSeq(s, 3, Len(s))
      v    == UnsignedDecimal(body)
  IN  IF s = <<>> THEN Zero
      ELSE IF rad # 0
           THEN (IF rest # <<>> /\ AllDigits(rest, rad)
                 THEN Num(DigitsToInt(rest, rad, 0)) ELSE NaN)
      ELSE IF body = InfinityStr THEN Inf(sgn)
      ELSE IF sgn < 0 THEN Neg(v) ELSE v

\* parseInt(s, 16): leading white space, a sign and a 0x prefix are skipped
\* and the longest run of hexadecimal digits is read; whatever follows the
\* run is ignored, and NaN results only when the run is empty.
parseInt16_body(s0) ==
  LET s    == trimStart(s0)
      sgn  == IF s # <<>> /\ Head(s) = "-" THEN -1 ELSE 1
      body == IF s # <<>> /\ Head(s) \in {"+", "-"} THEN Tail(s) ELSE s
      num  == IF Len(body) >= 2 /\ body[1] = "0" /\ LowerOf(body[2]) = "x"
              THEN SubSeq(body, 3, Len(body)) ELSE body
      n    == DigitRun(num, 16)
  IN  IF n = 0 THEN NaN
      ELSE Num(sgn * DigitsToInt(SubSeq(num, 1, n), 16, 0))

\* The digits of an integer a >= 0 in a radix, "0" for 0.
RECURSIVE IntDigits(_, _)
IntDigits(a, radix) ==
  IF a < radix THEN <<DigitChars[a + 1]>>
  ELSE IntDigits(a \div radix, radix) \o <<DigitChars[(a % radix) + 1]>>

Zeros(n) == [i \in 1..n |-> "0"]

NaNStr == <<"N", "a", "N">>

\* Number::toString(x), what a template literal writes for a number.
NumberToString_body(x) ==
  IF isNaN(x) THEN NaNStr
  ELSE IF x.k = "inf"
       THEN (IF x.m < 0 THEN <<"-">> ELSE <<>>) \o InfinityStr
  ELSE IF x.m = 0 THEN <<"0">>
  ELSE LET ds   == IntDigits(Abs(x.m), 10)
           k    == Len(ds)
           n    == x.e + k
           sign == IF x.m < 0 THEN <<"-">> ELSE <<>>
           body ==
             IF k <= n /\ n <= 21 THEN ds \o Zeros(n - k)
             ELSE IF 0 < n /\ n <= 21
                  THEN SubSeq(ds, 1, n) \o <<".">> \o SubSeq(ds, n + 1, k)
             ELSE IF -6 < n /\ n <= 0 THEN <<"0", ".">> \o Zeros(-n) \o ds
             ELSE <<ds[1]>>
                    \o (IF k > 1 THEN <<".">> \o Tail(ds) ELSE <<>>)
                    \o <<"e", IF n - 1 < 0 THEN "-" ELSE "+">>
                    \o IntDigits(Abs(n - 1), 10)
       IN  sign \o body

\* Number.prototype.toString(16), for the integers, NaN and infinities it
\* is applied to.
toString16_body(x) ==
  CASE isNaN(x) -> NaNStr
    [] x.k = "inf" -> (IF x.m < 0 THEN <<"-">> ELSE <<>>) \o InfinityStr
    [] IsFin(x) /\ x.e >= 0 ->
         (IF x.m < 0 THEN <<"-">> ELSE <<>>)
           \o IntDigits(Abs(x.m) * Pow10(x.e), 16)

\* The digits ds of an integer written with d of them after the point.
FixedText(sign, ds, d) ==
  sign \o SubSeq(ds, 1, Len(ds) - d)
    \o (IF d > 0 THEN <<".">> \o SubSeq(ds, Len(ds) - d + 1, Len(ds))
        ELSE <<>>)

\* |x| * 10^d for finite x, rounded to the nearest integer, a tie going up,
\* in decimal digits.
FixedDigits(a, sh) ==
  IF sh >= 0 THEN (IF a = 0 THEN <<"0">> ELSE IntDigits(a, 10) \o Zeros(sh))
  ELSE IF sh < -9 THEN <<"0">>
  ELSE IntDigits((2 * a + Pow10(-sh)) \div (2 * Pow10(-sh)), 10)

\* Number.prototype.toFixed(d).
toFixed_body(x, d) ==
  IF isNaN(x) THEN NaNStr
  ELSE IF x.k = "inf"
       THEN (IF x.m < 0 THEN <<"-">> ELSE <<>>) \o InfinityStr
  ELSE IF x.m # 0 /\ x.e + NumDigits(Abs(x.m)) > 21 THEN NumberToString(x)
  ELSE FixedText(IF x.m < 0 THEN <<"-">> ELSE <<>>,
                 padStart(FixedDigits(Abs(x.m), x.e + d), d + 1, "0"), d)

---------------------------------------------------------------------------
(* Parsing *)

\* "oklch(", "rgb" and "rgb("
OKLCH_OPEN == <<"o", "k", "l", "c", "h", "(">>

RGB_PREFIX == <<"r", "g", "b">>

RGB_OPEN == <<"r", "g", "b", "(">>

Unknown == [format |-> "unknown", values |-> <<>>]

\* The oklch branch: the text from index 6 to the last character but one,
\* up to the first '/', split at white space and converted with Number.
parseOklch_body(cleaned) ==
  LET parts  == split(substring(cleaned, 6, Len(cleaned) - 1), "/")
      tokens == splitSpaces(trim(parts[1]))
      values == [i \in 1..Len(tokens) |-> Number(tokens[i])]
  IN  IF Len(values) = 3 /\ \A i \in 1..3 : ~isNaN(values[i])
      THEN [format |-> "oklch", values |-> values]
      ELSE Unknown

\* The rgb branch: the text after the first '(' up to the last character
\* but one, split at commas, each piece trimmed and converted with Number.
parseRgb_body(cleaned) ==
  LET tokens == split(substring(cleaned, indexOf(cleaned, "(") + 1,
                                Len(cleaned) - 1), ",")
      values == [i \in 1..Len(tokens) |-> Number(trim(tokens[i]))]
  IN  IF Len(values) \in {3, 4} /\ \A i \in 1..Len(values) : ~isNaN(values[i])
      THEN [format |-> IF Len(values) = 4 THEN "rgba" ELSE "rgb",
            values |-> values]
      ELSE Unknown

\* The hex branch: three digits are doubled, six are read in pairs with
\* parseInt(pair, 16).
parseHex_body(cleaned) ==
  LET h0  == substring(cleaned, 1, Len(cleaned))
      hex == IF Len(h0) = 3
             THEN <<h0[1], h0[1], h0[2], h0[2], h0[3], h0[3]>>
             ELSE h0
      r   == parseInt16(substring(hex, 0, 2))
      g   == parseInt16(substring(hex, 2, 4))
      b   == parseInt16(substring(hex, 4, 6))
  IN  IF Len(hex) = 6 /\ ~isNaN(r) /\ ~isNaN(g) /\ ~isNaN(b)
      THEN [format |-> "hex", values |-> <<r, g, b>>]
      ELSE Unknown

\* Parses a color string into a format and its numerical values.  A branch
\* that fails falls through to the next one.
parseColor_body(in) ==
  LET cleaned == toLowerCase(trim(in))
      o == IF startsWith(cleaned, OKLCH_OPEN)
           THEN parseOklch(cleaned) ELSE Unknown
      r == IF startsWith(cleaned, RGB_PREFIX)
           THEN parseRgb(cleaned) ELSE Unknown
      h == IF startsWith(cleaned, <<"#">>)
           THEN parseHex(cleaned) ELSE Unknown
  IN  IF o # Unknown THEN o
      ELSE IF r # Unknown THEN r
      ELSE h

---------------------------------------------------------------------------
(* Conversion *)

Entry(f, v) == [format |-> f, value |-> v]

\* Variant of hexByte: no padding.
hexByteNoPad(x) == toString16(x)

\* x => x.toString(16).padStart(2, "0")
hexByte_body(x) == padStart(toString16(x), 2, "0")

\* `rgb(${r}, ${g}, ${b})`
rgbText_body(r, g, b) ==
  RGB_OPEN \o NumberToString(r) \o <<",", " ">> \o NumberToString(g)
    \o <<",", " ">> \o NumberToString(b) \o <<")">>

\* `#${[r, g, b].map(hexByte).join("")}`
hexText_body(r, g, b) ==
  <<"#">> \o join(<<hexByte(r), hexByte(g), hexByte(b)>>, <<>>)

\* `oklch(${L.toFixed(4)} ${C.toFixed(4)} ${H.toFixed(2)})`
oklchText_body(lch) ==
  OKLCH_OPEN \o toFixed(lch[1], 4) \o <<" ">> \o toFixed(lch[2], 4)
    \o <<" ">> \o toFixed(lch[3], 2) \o <<")">>

\* case "oklch"
convertOklch(values) ==
  LET rgb == oklchToRgb(values[1], values[2], values[3])
  IN  <<Entry("rgb", rgbText(rgb[1], rgb[2], rgb[3])),
        Entry("hex", hexText(rgb[1], rgb[2], rgb[3]))>>

\* Variant of case "rgb", case "rgba": the channels are multiplied by alpha
\* when there is one.
convertRgbPremultiplied(values) ==
  LET alpha == IF Len(values) = 4 THEN values[4] ELSE Num(1)
      r_rgb == clamp(Mul(values[1], alpha), Zero, Num(255))
      g_rgb == clamp(Mul(values[2], alpha), Zero, Num(255))
      b_rgb == clamp(Mul(values[3], alpha), Zero, Num(255))
      oklch == rgbToOklch(r_rgb, g_rgb, b_rgb)
  IN  <<Entry("oklch", oklchText(oklch)),
        Entry("hex", hexText(MathRound(r_rgb), MathRound(g_rgb),
                             MathRound(b_rgb)))>>

\* Variant of case "rgb", case "rgba": the hex entry is made from the
\* channels as given, not from the clamped ones.
convertRgbUnclamped(values) ==
  LET r_rgb == clamp(values[1], Zero, Num(255))
      g_rgb == clamp(values[2], Zero, Num(255))
      b_rgb == clamp(values[3], Zero, Num(255))
      oklch == rgbToOklch(r_rgb, g_rgb, b_rgb)
  IN  <<Entry("oklch", oklchText(oklch)),
        Entry("hex", hexText(MathRound(values[1]), MathRound(values[2]),
                             MathRound(values[3])))>>

\* case "rgb", case "rgba"
convertRgb(values) ==
  LET r_rgb == clamp(values[1], Zero, Num(255))
      g_rgb == clamp(values[2], Zero, Num(255))
      b_rgb == clamp(values[3], Zero, Num(255))
      oklch == rgbToOklch(r_rgb, g_rgb, b_rgb)
  IN  <<Entry("oklch", oklchText(oklch)),
        Entry("hex", hexText(MathRound(r_rgb), MathRound(g_rgb),
                             MathRound(b_rgb)))>>

\* Variant of case "hex": the entries in the other order.
convertHexSwapped(values) ==
  LET oklch == rgbToOklch(values[1], values[2], values[3])
  IN  <<Entry("rgb", rgbText(values[1], values[2], values[3])),
        Entry("oklch", oklchText(oklch))>>

\* case "hex"
convertHex(values) ==
  LET r_hex == values[1]
      g_hex == values[2]
      b_hex == values[3]
      oklch == rgbToOklch(r_hex, g_hex, b_hex)
  IN  <<Entry("oklch", oklchText(oklch)),
        Entry("rgb", rgbText(r_hex, g_hex, b_hex))>>

\* switch (format)
convertSwitch(format, values) ==
  CASE format = "oklch" -> convertOklch(values)
    [] format \in {"rgb", "rgba"} -> convertRgb(values)
    [] format = "hex" -> convertHex(values)
    [] OTHER -> <<>>

\* Main conversion function.
convertColor_body(format, values) ==
  IF values = <<>> \/ \E i \in 1..Len(values) : isNaN(values[i])
  THEN <<>>
  ELSE convertSwitch(format, values)

---------------------------------------------------------------------------
(* The page *)

exampleColors ==
  <<[label |-> "Deep Blue",
     value |-> <<"o", "k", "l", "c", "h", "(", "0", ".", "2", "7", "7",
               " ", "0", ".", "1", "7", "9", " ", "2", "6", "3", ".", "8",
               "4", ")">>],
    [label |-> "Vibrant Red",
     value |-> <<"o", "k", "l", "c", "h", "(", "0", ".", "6", "2", "7",
               " ", "0", ".", "2", "7", "7", " ", "2", "7", ".", "2", "3",
               ")">>],
    [label |-> "Forest Green",
     value |-> <<"o", "k", "l", "c", "h", "(", "0", ".", "5", "1", "7",
               " ", "0", ".", "1", "7", "7", " ", "1", "4", "2", ".", "7",
               "1", ")">>],
    [label |-> "Royal Purple",
     value |-> <<"#", "8", "0", "0", "0", "8", "0">>],
    [label |-> "Coral",
     value |-> <<"r", "g", "b", "(", "2", "5", "5", ",", " ", "1", "2",
               "7", ",", " ", "8", "0", ")">>]>>

\* The swatch colour handleColorChange computes for a parsed value.
displayColor_body(format, values) ==
  CASE format = "oklch" ->
         LET rgb == oklchToRgb(values[1], values[2], values[3])
         IN  rgbText(rgb[1], rgb[2], rgb[3])
    [] format \in {"rgb", "rgba"} ->
         rgbText(clamp(values[1], Zero, Num(255)),
                 clamp(values[2], Zero, Num(255)),
                 clamp(values[3], Zero, Num(255)))
    [] format = "hex" ->
         <<"#">> \o join([i \in 1..Len(values) |-> hexByte(values[i])], <<>>)
    [] OTHER -> <<>>

\* The function named c[1] applied to the arguments c[2], c[3], ...; the
\* arguments are values by the time the function is entered.
Call(c) ==
  CASE c[1] = "Mul" -> Mul_body(c[2], c[3])
    [] c[1] = "RoundInt" -> RoundInt_body(c[2], c[3])
    [] c[1] = "Add" -> Add_body(c[2], c[3])
    [] c[1] = "Div" -> Div_body(c[2], c[3])
    [] c[1] = "MathRound" -> MathRound_body(c[2])
    [] c[1] = "ReducePI" -> ReducePI_body(c[2])
    [] c[1] = "MathCos" -> MathCos_body(c[2])
    [] c[1] = "MathSin" -> MathSin_body(c[2])
    [] c[1] = "Atan01" -> Atan01_body(c[2])
    [] c[1] = "MathAtan2" -> MathAtan2_body(c[2], c[3])
    [] c[1] = "linearTosRGB" -> linearTosRGB_body(c[2])
    [] c[1] = "sRGBtoLinear" -> sRGBtoLinear_body(c[2])
    [] c[1] = "oklchToRgb" -> oklchToRgb_body(c[2], c[3], c[4])
    [] c[1] = "rgbToOklch" -> rgbToOklch_body(c[2], c[3], c[4])
    [] c[1] = "UnsignedDecimal" -> UnsignedDecimal_body(c[2])
    [] c[1] = "Number" -> Number_body(c[2])
    [] c[1] = "parseInt16" -> parseInt16_body(c[2])
    [] c[1] = "NumberToString" -> NumberToString_body(c[2])
    [] c[1] = "toString16" -> toString16_body(c[2])
    [] c[1] = "toFixed" -> toFixed_body(c[2], c[3])
    [] c[1] = "parseOklch" -> parseOklch_body(c[2])
    [] c[1] = "parseRgb" -> parseRgb_body(c[2])
    [] c[1] = "parseHex" -> parseHex_body(c[2])
    [] c[1] = "parseColor" -> parseColor_body(c[2])
    [] c[1] = "hexByte" -> hexByte_body(c[2])
    [] c[1] = "rgbText" -> rgbText_body(c[2], c[3], c[4])
    [] c[1] = "hexText" -> hexText_body(c[2], c[3], c[4])
    [] c[1] = "oklchText" -> oklchText_body(c[2])
    [] c[1] = "convertColor" -> convertColor_body(c[2], c[3])
    [] c[1] = "displayColor" -> displayColor_body(c[2], c[3])
    [] c[1] = "SumStep" -> SumStep_body(c[2])
    [] c[1] = "TaylorStep" -> TaylorStep_body(c[2])
    [] c[1] = "AtanStep" -> AtanStep_body(c[2])

\* Variant of handleColorChange: a value that does not parse leaves
\* conversions and previewColor as they were.
handleColorChangeStale(value) ==
  LET p == parseColor(value)
  IN  /\ input' = value
      /\ IF p.format # "unknown"
            /\ \A i \in 1..Len(p.values) : ~isNaN(p.values[i])
         THEN /\ conversions' = convertColor(p.format, p.values)
              /\ previewColor' = displayColor(p.format, p.values)
         ELSE UNCHANGED <<conversions, previewColor>>

\* handleColorChange(value): the input is set, and conversions and
\* previewColor are set from the parsed value or both cleared.
handleColorChange(value) ==
  LET p == parseColor(value)
  IN  /\ input' = value
      /\ IF p.format # "unknown"
            /\ \A i \in 1..Len(p.values) : ~isNaN(p.values[i])
         THEN /\ conversions' = convertColor(p.format, p.values)
              /\ previewColor' = displayColor(p.format, p.values)
         ELSE /\ conversions' = <<>>
              /\ previewColor' = <<>>

\* What the page renders from its state.
PreviewShown == previewColor # <<>>

ConversionsShown == Len(conversions) > 0

InvalidShown == input # <<>> /\ Len(conversions) = 0

HintShown == input = <<>>

---------------------------------------------------------------------------
(* Calls and results *)

\* call is the invocation under way and ret its returned value.
NoCall == [fn |-> "none"]

NoRet == [st |-> "none"]

Done(v) == [st |-> "done", v |-> v]

ParseDone == call.fn = "parseColor" /\ ret.st = "done"

ConvertDone == call.fn = "convertColor" /\ ret.st = "done"

HueDone == call.fn = "rgbToOklch" /\ ret.st = "done"

PageIdle == input = <<>> /\ conversions = <<>> /\ previewColor = <<>>

\* parseColor(call.text) returns.
DoParse ==
  /\ call.fn = "parseColor"
  /\ ret.st = "none"
  /\ ret' = Done(parseColor(call.text))
  /\ UNCHANGED <<input, conversions, previewColor, call>>

\* convertColor(call.format, call.values) returns.
DoConvert ==
  /\ call.fn = "convertColor"
  /\ ret.st = "none"
  /\ ret' = Done(convertColor(call.format, call.values))
  /\ UNCHANGED <<input, conversions, previewColor, call>>

\* rgbToOklch(r, g, b) returns.
DoRgbToOklch ==
  /\ call.fn = "rgbToOklch"
  /\ ret.st = "none"
  /\ ret' = Done(rgbToOklch(call.values[1], call.values[2], call.values[3]))
  /\ UNCHANGED <<input, conversions, previewColor, call>>

---------------------------------------------------------------------------
(* The page: typed input and example cards *)

MaxInputLen == 16

\* Texts typed into the input, one character at a time.
TypedTexts ==
  {<<"r", "g", "b", "(", "1", "e", "9", "9", "9", ",", "0", ",", "0",
   ")">>,
   <<"r", "g", "b", "(", ",", ",", ")">>,
   <<"#", "1", "g", "2", "g", "3", "g">>,
   <<"#", "A", "B", "C">>,
   <<"r", "g", "b", "a", "(", "1", ",", "2", ",", "3", ",", ".", "5",
   ")">>,
   <<"o", "k", "l", "c", "h", "(", "1", " ", "0", " ", "0", " ", "/", " ",
   "1", ")">>,
   <<"n", "o", "t", " ", "a", " ", "c", "o", "l", "o", "r">>}

ExampleTexts == {exampleColors[i].value : i \in 1..Len(exampleColors)}

HandleCall(value) == [fn |-> "handleColorChange", value |-> value]

\* onChange of the input: one more character.
TypeChar ==
  /\ Len(input) < MaxInputLen
  /\ \E t \in TypedTexts \cup ExampleTexts :
       /\ Len(t) > Len(input)
       /\ SubSeq(t, 1, Len(input)) = input
       /\ LET value == SubSeq(t, 1, Len(input) + 1)
          IN  handleColorChange(value) /\ call' = HandleCall(value)
  /\ UNCHANGED ret

\* onChange of the input: the last character deleted.
Backspace ==
  /\ input # <<>>
  /\ LET value == SubSeq(input, 1, Len(input) - 1)
     IN  handleColorChange(value) /\ call' = HandleCall(value)
  /\ UNCHANGED ret

\* onClick of an example card.
ClickExample ==
  /\ \E i \in 1..Len(exampleColors) :
       LET value == exampleColors[i].value
       IN  handleColorChange(value) /\ call' = HandleCall(value)
  /\ UNCHANGED ret

Init ==
  /\ input = <<>>
  /\ conversions = <<>>
  /\ previewColor = <<>>
  /\ call = NoCall
  /\ ret = NoRet

Next == TypeChar \/ Backspace \/ ClickExample

Spec == Init /\ [][Next]_vars

---------------------------------------------------------------------------
(* parseColor over input texts *)

MaxTokens == 4

ParseCall(text, tokens) ==
  [fn |-> "parseColor", text |-> text, tokens |-> tokens]

\* Component tokens of the arity family.
ArityTokens ==
  {<<"0", ".", "5">>,
   <<"2", "0", "0">>}

TokenSeqs == UNION {[1..n -> ArityTokens] : n \in 1..MaxTokens}

Heads ==
  {[open |-> <<"o", "k", "l", "c", "h", "(">>, sep |-> <<" ">>],
   [open |-> <<"r", "g", "b", "(">>, sep |-> <<",", " ">>],
   [open |-> <<"r", "g", "b", "a", "(">>, sep |-> <<",">>],
   [open |-> <<"r", "g", "b", "x", "(">>, sep |-> <<",">>]}

Tails == {<<")">>, <<>>}

\* head, 1..MaxTokens components, with and without the closing ')'
ArityCalls ==
  {ParseCall(h.open \o join(ts, h.sep) \o tl, ts) :
     h \in Heads, ts \in TokenSeqs, tl \in Tails}

\* Component tokens that are empty, non-numeric or out of range.
SpecialTokens ==
  {<<>>,
   <<"a", "b", "c">>,
   <<"1", "e", "9", "9", "9">>,
   <<"-", "1", "e", "9", "9", "9">>,
   <<"-", "I", "n", "f", "i", "n", "i", "t", "y">>,
   <<"N", "a", "N">>,
   <<"0", "x", "1", "F">>,
   <<"1", "e", "3">>,
   <<"-", ".", "5">>,
   <<"+", "7">>,
   <<"1", "_", "0">>,
   <<"1", "2", "p", "x">>,
   <<"1", "e", "-", "4", "0", "0">>,
   <<".">>}

TokenCalls ==
  {ParseCall(<<"o", "k", "l", "c", "h", "(">> \o t \o <<" ", "0", ".", "1", " ", "2", "0", "0", ")">>,
             <<t, <<"0", ".", "1">>, <<"2", "0", "0">>>>) : t \in SpecialTokens}
    \cup {ParseCall(<<"r", "g", "b", "(">> \o t \o <<",", " ", "0", ",", " ", "0", ")">>,
                    <<t, <<"0">>, <<"0">>>>) : t \in SpecialTokens}
    \cup {ParseCall(<<"r", "g", "b", "(">> \o t \o <<",">> \o t \o <<",">> \o t \o <<")">>,
                    <<t, t, t>>) : t \in SpecialTokens}
    \cup {ParseCall(<<"r", "g", "b", "a", "(", "0", ",", "0", ",", "0", ",">> \o t \o <<")">>,
                    <<<<"0">>, <<"0">>, <<"0">>, t>>) : t \in SpecialTokens}

HexBodyChars == {"0", "f", "A", "g", "-"}

\* Two-character groups of the 6-character hex bodies.
HexBodyPairs ==
  {<<"0", "0">>,
   <<"f", "F">>,
   <<"1", "g">>,
   <<"-", "1">>,
   <<"7", "f">>}

\* Hex bodies of other lengths.
OddHexBodies ==
  {<<>>,
   <<"1">>,
   <<"1", "2">>,
   <<"1", "2", "3", "4">>,
   <<"1", "2", "3", "4", "5">>,
   <<"1", "2", "3", "4", "5", "6", "7">>,
   <<"1", "2", "3", "4", "5", "6", "7", "8">>}

HexBodies ==
  [1..3 -> HexBodyChars]
    \cup {x \o y \o z : x \in HexBodyPairs, y \in HexBodyPairs,
                        z \in HexBodyPairs}
    \cup OddHexBodies

HexCalls ==
  {ParseCall(<<"#">> \o b, <<>>) : b \in HexBodies}
    \cup {ParseCall(<<" ", "#">> \o b \o <<" ">>, <<>>) : b \in OddHexBodies}

\* Texts of no grammar, bare prefixes, and texts with case and spaces.
OtherTexts ==
  {<<>>,
   <<" ", " ", " ">>,
   <<"r", "e", "d">>,
   <<"n", "o", "t", " ", "a", " ", "c", "o", "l", "o", "r">>,
   <<"h", "s", "l", "(", "0", ",", " ", "0", "%", ",", " ", "0", "%",
   ")">>,
   <<"o", "k", "l", "c", "h">>,
   <<"o", "k", "l", "c", "h", "(">>,
   <<"o", "k", "l", "c", "h", "(", ")">>,
   <<"r", "g", "b">>,
   <<"r", "g", "b", "(">>,
   <<"r", "g", "b", "(", ")">>,
   <<"#">>,
   <<" ", "O", "K", "L", "C", "H", "(", " ", "0", ".", "5", " ", " ", "0",
   ".", "1", " ", "2", "0", "0", " ", ")", " ">>,
   <<" ", " ", "R", "G", "B", "(", "1", ",", "2", ",", "3", ")", " ",
   " ">>,
   <<"r", "g", "b", " ", "1", ",", "2", ",", "3", ")">>,
   <<"(", "1", ",", "2", ",", "3", ")">>,
   <<"r", "g", "b", "(", "1", ",", "2", ",", "3", ",", "4", ",", "5",
   ")">>,
   <<"o", "k", "l", "c", "h", "(", "1", " ", "2", ")">>,
   <<"o", "k", "l", "c", "h", "(", "0", ".", "5", " ", "0", ".", "1", " ",
   "2", "0", "0">>,
   <<"r", "g", "b", "(", "2", "5", "5", ",", " ", "1", "2", "7", ",", " ",
   "8", "0">>}

OtherCalls == {ParseCall(t, <<>>) : t \in OtherTexts}

ParseCalls == ArityCalls \cup TokenCalls \cup HexCalls \cup OtherCalls

InitParse ==
  /\ PageIdle
  /\ call \in ParseCalls
  /\ ret = NoRet

NextParse == DoParse

SpecParse == InitParse /\ [][NextParse]_vars

---------------------------------------------------------------------------
(* convertColor over tags and values *)

ConvertCall(format, values) ==
  [fn |-> "convertColor", format |-> format, values |-> values]

FormatTags == {"oklch", "rgb", "rgba", "hex", "unknown", "hsl"}

\* The numbers written in a text, one literal after another.
Numbers(text) ==
  [i \in 1..Len(splitSpaces(text)) |-> Number(splitSpaces(text)[i])]

\* Channel triples: in range, fractional, out of range, huge, non-finite.
RgbTexts ==
  {<<"2", "5", "5", " ", "1", "2", "7", " ", "8", "0">>,
   <<"0", " ", "0", " ", "0">>,
   <<"2", "5", "5", " ", "2", "5", "5", " ", "2", "5", "5">>,
   <<"1", "5", " ", "1", "6", " ", "9">>,
   <<"2", "5", "4", ".", "6", " ", "0", ".", "5", " ", "1", "5", ".",
   "4">>,
   <<"1", "9", "9", ".", "5", " ", "2", "0", "0", ".", "5", " ", "0", ".",
   "4", "9">>,
   <<"-", "2", "0", " ", "3", "0", "0", " ", "9">>,
   <<"1", "e", "2", "0", "0", " ", "-", "1", "e", "2", "0", "0", " ", "1",
   "2", "8">>,
   <<"I", "n", "f", "i", "n", "i", "t", "y", " ", "0", " ", "0">>,
   <<"0", " ", "-", "I", "n", "f", "i", "n", "i", "t", "y", " ", "2", "5",
   "5">>,
   <<"N", "a", "N", " ", "0", " ", "0">>,
   <<"0", " ", "0", " ", "N", "a", "N">>}

RgbTriples == {Numbers(t) : t \in RgbTexts}

\* (L, C, H) triples: nominal, out of gamut, huge, non-finite.
OklchTexts ==
  {<<"0", ".", "6", "2", "7", " ", "0", ".", "2", "7", "7", " ", "2", "7",
   ".", "2", "3">>,
   <<"0", ".", "5", " ", "0", ".", "1", " ", "2", "0", "0">>,
   <<"1", " ", "0", " ", "0">>,
   <<"2", " ", "0", ".", "5", " ", "4", "0", "0">>,
   <<"-", "1", " ", "0", " ", "-", "9", "0">>,
   <<"1", "e", "2", "0", "0", " ", "0", " ", "0">>,
   <<"I", "n", "f", "i", "n", "i", "t", "y", " ", "0", " ", "0">>,
   <<"0", ".", "5", " ", "I", "n", "f", "i", "n", "i", "t", "y", " ",
   "0">>,
   <<"0", ".", "5", " ", "0", ".", "1", " ", "-", "I", "n", "f", "i", "n",
   "i", "t", "y">>,
   <<"0", ".", "5", " ", "0", ".", "1", " ", "N", "a", "N">>}

OklchTriples == {Numbers(t) : t \in OklchTexts}

\* Alpha values.
Alphas ==
  {Numbers(<<"0", " ", "0", ".", "5", " ", "1", " ", "-", "3", " ", "I", "n",
      "f", "i", "n", "i", "t", "y", " ", "N", "a", "N">>)[i] : i \in 1..6}

\* convertColor is called with no values or with 3 or 4 of them.
ConvertCalls ==
  {ConvertCall(f, v) : f \in FormatTags, v \in RgbTriples \cup OklchTriples}
    \cup {ConvertCall("rgba", Append(v, a)) : v \in RgbTriples, a \in Alphas}
    \cup {ConvertCall(f, <<>>) : f \in FormatTags}

\* The "L C H" part of oklch texts.
LchTexts ==
  {<<"0", ".", "5", " ", "0", ".", "1", " ", "2", "0", "0">>,
   <<"0", ".", "6", "2", "7", " ", "0", ".", "2", "7", "7", " ", "2", "7",
   ".", "2", "3">>,
   <<"1", " ", "2">>,
   <<"0", ".", "5", " ", "a", "b", "c", " ", "3">>,
   <<>>}

\* Alpha texts.
AlphaTexts ==
  {<<"0", ".", "5">>,
   <<>>,
   <<"a", "b", "c">>,
   <<"5", "0", "%">>,
   <<"1", " ", "2", " ", "3">>,
   <<"0", ".", "5", ")">>,
   <<"/", " ", "7">>,
   <<"N", "a", "N">>}

AlphaCall(lch, alpha) ==
  [fn |-> "parseColor",
   text |-> OKLCH_OPEN \o lch \o <<" ", "/", " ">> \o alpha \o <<")">>,
   lch |-> lch, alpha |-> alpha]

AlphaCalls == {AlphaCall(l, a) : l \in LchTexts, a \in AlphaTexts}

InitConvert ==
  /\ PageIdle
  /\ call \in ConvertCalls \cup AlphaCalls
  /\ ret = NoRet

NextConvert == DoConvert \/ DoParse

SpecConvert == InitConvert /\ [][NextConvert]_vars

---------------------------------------------------------------------------
(* rgbToOklch over channel triples *)

GridSteps == 5

Levels == {i * (255 \div GridSteps) : i \in 0..GridSteps}

\* Triples whose hue lies just below 360 degrees.
NearWrapTriples == {<<249, 153, 183>>, <<197, 30, 107>>, <<139, 24, 75>>}

HueTriples == (Levels \X Levels \X Levels) \cup NearWrapTriples

HueCall(t) ==
  [fn |-> "rgbToOklch", values |-> [i \in 1..3 |-> Num(t[i])]]

InitHue ==
  /\ PageIdle
  /\ call \in {HueCall(t) : t \in HueTriples}
  /\ ret = NoRet

NextHue == DoRgbToOklch

SpecHue == InitHue /\ [][NextHue]_vars

---------------------------------------------------------------------------
(* Round trip: a text is parsed, converted, and an entry is parsed again *)

MaxFeeds == 1

\* Two-digit groups of the origin texts.
OriginPairs ==
  {<<"0", "0">>,
   <<"f", "F">>,
   <<"7", "f">>,
   <<"0", "A">>}

Origins ==
  {<<"#">> \o x \o y \o z : x \in OriginPairs, y \in OriginPairs,
                            z \in OriginPairs}

\* The parsed result is handed to convertColor, as handleColorChange does.
FeedParsed ==
  /\ ParseDone
  /\ ret.v.format # "unknown"
  /\ call' = [fn |-> "convertColor", format |-> ret.v.format,
              values |-> ret.v.values, origin |-> call.origin,
              path |-> call.path]
  /\ ret' = NoRet
  /\ UNCHANGED <<input, conversions, previewColor>>

\* The text of an entry (what its copy button yields) is parsed.
FeedEntry ==
  /\ ConvertDone
  /\ Len(call.path) < MaxFeeds
  /\ \E i \in 1..Len(ret.v) :
       call' = [fn |-> "parseColor", text |-> ret.v[i].value,
                origin |-> call.origin,
                path |-> Append(call.path, ret.v[i].format)]
  /\ ret' = NoRet
  /\ UNCHANGED <<input, conversions, previewColor>>

InitRoundTrip ==
  /\ PageIdle
  /\ call \in {[fn |-> "parseColor", text |-> o, origin |-> o,
                path |-> <<>>] : o \in Origins}
  /\ ret = NoRet

NextRoundTrip == DoParse \/ FeedParsed \/ DoConvert \/ FeedEntry

SpecRoundTrip == InitRoundTrip /\ [][NextRoundTrip]_vars

---------------------------------------------------------------------------
(* Properties of parseColor, checked under SpecParse *)

\* input.trim().toLowerCase()
Cleaned(text) == toLowerCase(trim(text))

\* c opens with the given prefix and ends with ')'.
Closed(c, open) == startsWith(c, open) /\ c[Len(c)] = ")"

Inside(c, open) == SubSeq(c, Len(open) + 1, Len(c) - 1)

RGBA_OPEN == <<"r", "g", "b", "a", "(">>

\* The three grammars by structure: prefix, closing ')' and arity for
\* oklch(L C H), oklch(L C H / A), rgb(R, G, B) and rgba(R, G, B, A); '#' and
\* a body of 3 or 6 characters for hex.
WellFormedOklch(c) ==
  /\ Closed(c, OKLCH_OPEN)
  /\ Len(splitSpaces(trim(split(Inside(c, OKLCH_OPEN), "/")[1]))) = 3

WellFormedRgb(c) ==
  \E open \in {RGB_OPEN, RGBA_OPEN} :
    Closed(c, open) /\ Len(split(Inside(c, open), ",")) \in {3, 4}

WellFormedHex(c) == startsWith(c, <<"#">>) /\ Len(c) \in {4, 7}

WellFormed(c) == WellFormedOklch(c) \/ WellFormedRgb(c) \/ WellFormedHex(c)

\* C1: parseColor returns for every input; whenever the trimmed, lower-cased
\* input is not a complete, well-formed instance of one of the three
\* grammars (wrong arity, a missing closing ')', extra characters between
\* the rgb/rgba prefix and '(') the result is unknown, and an unknown result
\* carries no values.
C1_RejectsMalformed ==
  ParseDone =>
    /\ ~WellFormed(Cleaned(call.text)) => ret.v = Unknown
    /\ ret.v.format = "unknown" => ret.v.values = <<>>

\* C2: every value of a result tagged oklch, rgb or rgba is a finite number
\* and comes from a non-empty token; an empty, non-numeric, NaN or infinite
\* token makes the parse fail.
C2_FiniteValuesFromTokens ==
  (ParseDone /\ ret.v.format \in {"oklch", "rgb", "rgba"}) =>
    /\ \A i \in 1..Len(ret.v.values) : IsFin(ret.v.values[i])
    /\ \A i \in 1..Len(call.tokens) : trim(call.tokens[i]) # <<>>

\* The reference hex reader: 3 hex digits are doubled, 6 hex digits are read
\* in pairs, any other body is unknown.
HexPairValue(p) == 16 * DigitVal(p[1], 16) + DigitVal(p[2], 16)

HexReference(body) ==
  LET six == IF Len(body) = 3
             THEN <<body[1], body[1], body[2], body[2], body[3], body[3]>>
             ELSE body
  IN  IF Len(six) = 6 /\ AllDigits(six, 16)
      THEN [format |-> "hex",
            values |-> [i \in 1..3 |->
                          Num(HexPairValue(SubSeq(six, 2 * i - 1, 2 * i)))]]
      ELSE Unknown

\* C3: for every input starting with '#', parseColor agrees with the
\* reference hex reader: bodies of 3 or 6 hex digits give the three base-16
\* values in 0..255, every other body gives unknown.
C3_AgreesWithHexReference ==
  (ParseDone /\ startsWith(Cleaned(call.text), <<"#">>)) =>
    ret.v = HexReference(Tail(Cleaned(call.text)))

---------------------------------------------------------------------------
(* Properties of convertColor, checked under SpecConvert *)

\* t occurs in s.
HasText(s, t) ==
  \E i \in 1..(Len(s) - Len(t) + 1) : SubSeq(s, i, i + Len(t) - 1) = t

\* C4: convertColor returns the empty sequence whenever the tag is not one
\* of oklch, rgb, rgba, hex, or there are no values, or a value is NaN,
\* +Infinity or -Infinity; no entry it returns contains "NaN" or "Infinity".
C4_EmptyForBadInput ==
  ConvertDone =>
    /\ (\/ call.format \notin {"oklch", "rgb", "rgba", "hex"}
        \/ call.values = <<>>
        \/ \E i \in 1..Len(call.values) : ~IsFin(call.values[i]))
         => ret.v = <<>>
    /\ \A i \in 1..Len(ret.v) :
         ~HasText(ret.v[i].value, NaNStr)
           /\ ~HasText(ret.v[i].value, InfinityStr)

\* The formats of the entries, by input tag.
EntryOrder(format) ==
  CASE format = "oklch" -> <<"rgb", "hex">>
    [] format \in {"rgb", "rgba"} -> <<"oklch", "hex">>
    [] format = "hex" -> <<"oklch", "rgb">>
    [] OTHER -> <<>>

\* C5: a non-empty result of convertColor has exactly two entries, in the
\* order fixed by the input tag (oklch: rgb, hex; rgb and rgba: oklch, hex;
\* hex: oklch, rgb), and none of them has the input's own format.
C5_TwoEntriesInFixedOrder ==
  (ConvertDone /\ ret.v # <<>>) =>
    /\ Len(ret.v) = 2
    /\ <<ret.v[1].format, ret.v[2].format>> = EntryOrder(call.format)
    /\ \A i \in 1..Len(ret.v) : ret.v[i].format # call.format

\* A hex input converted: the second entry is the rgb one.
C5_HexConverted ==
  /\ ConvertDone
  /\ call.format = "hex"
  /\ Len(ret.v) = 2
  /\ ret.v[2].format = "rgb"

AlphaCallDone == ParseDone /\ "alpha" \in DOMAIN call

RgbaCallDone ==
  ConvertDone /\ call.format = "rgba" /\ Len(call.values) = 4

\* parseColor ignores the " / <alpha>" suffix of an oklch text.
AlphaSuffixIgnored ==
  AlphaCallDone =>
    ret.v = parseColor(OKLCH_OPEN \o call.lch \o <<")">>)

\* C7 as stated: convertColor("rgba", [r, g, b, a]) equals
\* convertColor("rgb", [r, g, b]) for every alpha value a, so the results for
\* any two alpha values are equal; and parseColor of an oklch text with a
\* " / <alpha>" suffix equals parseColor of the text without it.
C7_AlphaIgnored ==
  /\ RgbaCallDone =>
       ret.v = convertColor("rgb", SubSeq(call.values, 1, 3))
  /\ AlphaSuffixIgnored

\* C7, amended: the same for every alpha value that is not NaN (a NaN alpha
\* empties the result, as a NaN in any position does).
C7_AlphaIgnoredUnlessNaN ==
  /\ (RgbaCallDone /\ ~isNaN(call.values[4])) =>
       ret.v = convertColor("rgb", SubSeq(call.values, 1, 3))
  /\ AlphaSuffixIgnored

\* An rgba conversion with alpha 0.5 that produced entries.
C7_HalfAlphaConverted ==
  /\ RgbaCallDone
  /\ call.values[4] = Dec(5, -1)
  /\ ret.v # <<>>

\* The channel byte of the reference: x clamped to [0, 255], then the
\* nearest integer, a tie going up.  x = m * 10^e.
ChannelByte(x) ==
  IF Cmp(x, Zero) <= 0 THEN 0
  ELSE IF Cmp(x, Num(255)) >= 0 THEN 255
  ELSE IF x.e >= 0 THEN x.m * Pow10(x.e)
  ELSE (2 * x.m + Pow10(-x.e)) \div (2 * Pow10(-x.e))

\* Two lower-case hex digits.
ByteText(n) == <<DigitChars[(n \div 16) + 1], DigitChars[(n % 16) + 1]>>

HexOfChannels(values) ==
  <<"#">> \o ByteText(ChannelByte(values[1]))
    \o ByteText(ChannelByte(values[2])) \o ByteText(ChannelByte(values[3]))

FiniteRgbCallDone ==
  /\ ConvertDone
  /\ call.format \in {"rgb", "rgba"}
  /\ Len(call.values) \in {3, 4}
  /\ \A i \in 1..3 : IsFin(call.values[i])
  /\ \A i \in 1..Len(call.values) : ~isNaN(call.values[i])

\* C9: for rgb or rgba input with finite channels the hex entry is '#' and
\* two lower-case, zero-padded hex digits per channel, the channel being the
\* input clamped to [0, 255] and then rounded to the nearest integer;
\* rgb(255, 127, 80) gives #ff7f50.
C9_HexOfClampedRounded ==
  /\ FiniteRgbCallDone =>
       /\ Len(ret.v) = 2
       /\ ret.v[2] = Entry("hex", HexOfChannels(call.values))
       /\ Len(ret.v[2].value) = 7
  /\ (ConvertDone /\ call.format = "rgb"
        /\ call.values = <<Num(255), Num(127), Num(80)>>) =>
       ret.v[2].value = <<"#", "f", "f", "7", "f", "5", "0">>

\* rgb input (254.6, 0.5, 15.4) converted: clamped, rounded, padded.
C9_FractionalConverted ==
  /\ FiniteRgbCallDone
  /\ call.format = "rgb"
  /\ call.values = <<Dec(2546, -1), Dec(5, -1), Dec(154, -1)>>
  /\ ret.v[2].value = <<"#", "f", "f", "0", "1", "0", "f">>

---------------------------------------------------------------------------
(* Property of rgbToOklch, checked under SpecHue *)

\* C8: for channels in [0, 255] the hue h returned by rgbToOklch satisfies
\* 0 <= h < 360 and the lightness is in [0, 1].
C8_HueBelow360 ==
  HueDone =>
    /\ Le(Zero, ret.v[3]) /\ Lt(ret.v[3], Num(360))
    /\ Le(Zero, ret.v[1]) /\ Le(ret.v[1], Num(1))

---------------------------------------------------------------------------
(* Property of the hex round trip, checked under SpecRoundTrip *)

\* C6: a 6-digit hex text is parsed as hex, its conversion has an rgb entry,
\* and that entry, parsed and converted, has the hex entry '#' followed by the
\* original digits in lower case.
C6_HexRoundTrip ==
  /\ (ParseDone /\ call.path = <<>>) => ret.v.format = "hex"
  /\ (ConvertDone /\ call.path = <<>>) =>
       \E i \in 1..Len(ret.v) : ret.v[i].format = "rgb"
  /\ (ParseDone /\ call.path = <<"rgb">>) => ret.v.format = "rgb"
  /\ (ConvertDone /\ call.path = <<"rgb">>) =>
       \E i \in 1..Len(ret.v) :
         ret.v[i] = Entry("hex", toLowerCase(call.origin))

\* The rgb entry of #7f0AfF has been parsed and converted.
C6_MixedCaseReturned ==
  /\ ConvertDone
  /\ call.path = <<"rgb">>
  /\ call.origin = <<"#", "7", "f", "0", "A", "f", "F">>
  /\ Len(ret.v) = 2
  /\ ret.v[2].format = "hex"

---------------------------------------------------------------------------
(* Property of the page, checked under Spec *)

HandleDone == call.fn = "handleColorChange"

\* C10: after any sequence of handleColorChange calls the page state is that
\* of the latest value: input is that value; conversions is non-empty exactly
\* when previewColor is non-empty exactly when the value parses; a value
\* that does not parse leaves both empty; and the invalid message is shown
\* exactly when input is non-empty and conversions is empty.
C10_StateOfLatestValue ==
  HandleDone =>
    LET p == parseColor(call.value)
    IN  /\ input = call.value
        /\ ConversionsShown <=> PreviewShown
        /\ PreviewShown <=> p.format # "unknown"
        /\ p.format = "unknown" => conversions = <<>> /\ previewColor = <<>>
        /\ p.format # "unknown" =>
             conversions = convertColor(p.format, p.values)
        /\ InvalidShown <=> (call.value # <<>> /\ conversions = <<>>)

\* "#8000", typed after "#800" had shown its conversions: nothing of them
\* remains and the invalid message is shown.
C10_ResetAfterValid ==
  /\ HandleDone
  /\ input = <<"#", "8", "0", "0", "0">>
  /\ conversions = <<>>
  /\ previewColor = <<>>
  /\ InvalidShown

====
